---- MODULE Spec2Model ----
(***************************************************************************)
(* The aggregation pipelines of query_it_tools_2_copy.js (queries 1 and 3  *)
(* to 10), as operators over collections.  A collection is a sequence of   *)
(* documents                                                               *)
(* (records); the collections are read-only, and every run of a query      *)
(* appends what the shell received (rows, or an error) to `runs`.          *)
(*                                                                         *)
(* Numbers are exact fixed-point integers (the unit is given at each       *)
(* field); a nullable field is <<>> (null / missing) or <<v>>.             *)
(* Where the server leaves an order unspecified (the order of $group       *)
(* output, the order of $sort ties) the model takes every order.           *)
(***************************************************************************)
EXTENDS Integers, Sequences, FiniteSets, TLC

VARIABLES plants, worldgen, rates, uprod, usgen, uprice, runs

vars == <<plants, worldgen, rates, uprod, usgen, uprice, runs>>

-----------------------------------------------------------------------------
(* Bounds of the model.                                                    *)

MaxRuns == 2
MaxPlantsQ1 == 3
MaxGenQ3 == 3
MaxGenQ4 == 3
MaxPlantsQ5 == 2
MaxRates == 2
MaxPlantsQ8 == 2
MaxPlantsQ7 == 3
MaxProd == 2
MaxUsGen == 2
MaxPrice == 2

-----------------------------------------------------------------------------
(* Values.                                                                 *)

Null == <<>>
Some(v) == <<v>>
IsNull(x) == x = Null
Val(x) == x[1]

Abs(x) == IF x < 0 THEN -x ELSE x

SeqsUpTo(S, n) == UNION {[1..k -> S] : k \in 0..n}

Range(s) == {s[i] : i \in DOMAIN s}

RECURSIVE SeqSum(_)
SeqSum(s) == IF s = <<>> THEN 0 ELSE s[1] + SeqSum(Tail(s))

\* $sum of a nullable field: a null or missing value adds nothing.
NumOrZero(x) == IF IsNull(x) THEN 0 ELSE Val(x)

\* Truncation instead of rounding.
RoundDivTrunc(num, den) == num \div den

\* $round of num/den (den > 0) to an integer of the target unit: to nearest,
\* a half goes to the even neighbour.
RoundDiv(num, den) ==
    LET q == num \div den
        r == num % den
    IN  IF 2 * r < den THEN q
        ELSE IF 2 * r > den THEN q + 1
        ELSE IF q % 2 = 0 THEN q ELSE q + 1

\* $sort on one key, before[i][j] telling that the key of s[i] sorts strictly
\* before the key of s[j]: the outcomes are the permutations of the input that
\* are ordered by the key; the order of equal keys is not specified.
SortOutcomes(s, before) ==
    LET n == Len(s)
        ordered(p) == \A i \in 1..n : \A j \in 1..n :
                          i < j => ~before[p[j]][p[i]]
    IN  {[i \in 1..n |-> s[p[i]]] : p \in {q \in Permutations(1..n) : ordered(q)}}

\* { $sort: { key: -1 } } and { $sort: { key: 1 } } on a numeric key.
Descending(keys) == [i \in DOMAIN keys |-> [j \in DOMAIN keys |-> keys[i] > keys[j]]]
Ascending(keys) == [i \in DOMAIN keys |-> [j \in DOMAIN keys |-> keys[i] < keys[j]]]

\* The output of $group: one document per key, in an unspecified order.
GroupOutcomes(S) ==
    LET n == Cardinality(S)
    IN  {f \in [1..n -> S] : \A x \in S : \E i \in 1..n : f[i] = x}

Ok(q, rows) == [query |-> q, ok |-> TRUE, rows |-> rows]
Failed(q) == [query |-> q, ok |-> FALSE, rows |-> <<>>]

PlantDoc(c, cl, f, cap, lat, lon, g, e) ==
    [country |-> c, country_long |-> cl, name |-> "p", primary_fuel |-> f,
     capacity_mw |-> cap, latitude |-> lat, longitude |-> lon,
     generation_gwh_2017 |-> g, estimated_generation_gwh_2017 |-> e]

-----------------------------------------------------------------------------
(* QUERY 1: plants and capacity by primary fuel.                           *)
(* capacity_mw is in hundredths of a MW, total_capacity_mw in tenths.      *)

Q1Group(coll) ==
    {[_id |-> f,
      number_of_plants |-> Len(SelectSeq(coll, LAMBDA d : d.primary_fuel = f)),
      total_capacity_mw |->
          SeqSum([i \in DOMAIN coll |->
                    IF coll[i].primary_fuel = f
                    THEN NumOrZero(coll[i].capacity_mw) ELSE 0])]
     : f \in {coll[i].primary_fuel : i \in DOMAIN coll}}

Q1Project(g) ==
    [_id |-> g._id, number_of_plants |-> g.number_of_plants,
     total_capacity_mw |-> RoundDiv(g.total_capacity_mw, 10)]

Q1Results(coll) ==
    UNION {SortOutcomes([i \in DOMAIN gs |-> Q1Project(gs[i])],
                        Descending([i \in DOMAIN gs |->
                                       Q1Project(gs[i]).total_capacity_mw]))
           : gs \in GroupOutcomes(Q1Group(coll))}

Query1 ==
    /\ Len(runs) < MaxRuns
    /\ \E rows \in Q1Results(plants) : runs' = Append(runs, Ok(1, rows))
    /\ UNCHANGED <<plants, worldgen, rates, uprod, usgen, uprice>>

Q1Caps == {Null, Some(4), Some(15)}
Q1Docs == {PlantDoc("C", "C", f, cap, Null, Null, Null, Null)
           : f \in {"Nuclear", "Coal"}, cap \in Q1Caps}

InitQ1 ==
    /\ plants \in SeqsUpTo(Q1Docs, MaxPlantsQ1)
    /\ worldgen = <<>> /\ rates = <<>> /\ uprod = <<>>
    /\ usgen = <<>> /\ uprice = <<>>
    /\ runs = <<>>

NextQ1 == Query1

SpecQ1 == InitQ1 /\ [][NextQ1]_vars

-----------------------------------------------------------------------------
(* QUERY 3: countries whose 2023 average nuclear share is above the global *)
(* average.  share_of_electricity_pct is in thousandths of a percent, the  *)
(* emitted avg_nuclear_share in hundredths.  An average is kept exact, as  *)
(* the pair (sum, count) of the non-null values.                           *)

GenDoc(e, y, share, twh) ==
    [Entity |-> e, Year |-> y, share_of_electricity_pct |-> share,
     electricity_from_nuclear_twh |-> twh]

\* $avg: over the non-null values only; null when there is none.
Avg(xs) ==
    LET nums == SelectSeq(xs, LAMBDA x : ~IsNull(x))
    IN  IF nums = <<>> THEN Null
        ELSE Some([num |-> SeqSum([i \in DOMAIN nums |-> Val(nums[i])]),
                   den |-> Len(nums)])

Q3Year(coll) == SelectSeq(coll, LAMBDA d : d.Year = 2023)

Shares(s) == [i \in DOMAIN s |-> s[i].share_of_electricity_pct]

\* Step 1: the one document of the _id: null group, when the match is not empty.
Q3GlobalGroup(coll) ==
    IF Q3Year(coll) = <<>> THEN <<>>
    ELSE <<[_id |-> Null, avg_share |-> Avg(Shares(Q3Year(coll)))]>>

Q3Group(coll) ==
    {[_id |-> e,
      avg_nuclear_share |->
          Avg(Shares(SelectSeq(Q3Year(coll), LAMBDA d : d.Entity = e)))]
     : e \in {Q3Year(coll)[i].Entity : i \in DOMAIN Q3Year(coll)}}

\* $gte in place of $gt.
Q3MatchGte(g, globalAvg) ==
    /\ ~IsNull(g.avg_nuclear_share)
    /\ ~IsNull(globalAvg)
    /\ Val(g.avg_nuclear_share).num * Val(globalAvg).den
           >= Val(globalAvg).num * Val(g.avg_nuclear_share).den

\* { avg_nuclear_share: { $gt: globalAvg } }: a null on either side matches nothing.
Q3Match(g, globalAvg) ==
    /\ ~IsNull(g.avg_nuclear_share)
    /\ ~IsNull(globalAvg)
    /\ Val(g.avg_nuclear_share).num * Val(globalAvg).den
           > Val(globalAvg).num * Val(g.avg_nuclear_share).den

Q3Project(g) ==
    [_id |-> g._id,
     avg_nuclear_share |-> RoundDiv(Val(g.avg_nuclear_share).num,
                                    10 * Val(g.avg_nuclear_share).den)]

Q3Results(coll, globalAvg) ==
    UNION {LET kept == SelectSeq(gs, LAMBDA g : Q3Match(g, globalAvg))
               rows == [i \in DOMAIN kept |-> Q3Project(kept[i])]
           IN  SortOutcomes(rows, Descending([i \in DOMAIN rows |->
                                                rows[i].avg_nuclear_share]))
           : gs \in GroupOutcomes(Q3Group(coll))}

\* toArray()[0].avg_share throws when no row has Year 2023.
Query3 ==
    /\ Len(runs) < MaxRuns
    /\ IF Q3GlobalGroup(worldgen) = <<>>
       THEN runs' = Append(runs, Failed(3))
       ELSE \E rows \in Q3Results(worldgen, Q3GlobalGroup(worldgen)[1].avg_share) :
                runs' = Append(runs, Ok(3, rows))
    /\ UNCHANGED <<plants, worldgen, rates, uprod, usgen, uprice>>

Q3Shares == {Null, Some(0), Some(4), Some(26)}
Q3Docs == {GenDoc(e, y, sh, Null)
           : e \in {"Canada", "France"}, y \in {2022, 2023}, sh \in Q3Shares}

InitQ3 ==
    /\ worldgen \in SeqsUpTo(Q3Docs, MaxGenQ3)
    /\ plants = <<>> /\ rates = <<>> /\ uprod = <<>>
    /\ usgen = <<>> /\ uprice = <<>>
    /\ runs = <<>>

NextQ3 == Query3

SpecQ3 == InitQ3 /\ [][NextQ3]_vars

-----------------------------------------------------------------------------
(* QUERY 4: the year(s) of Canada's largest increase after 2015.           *)

Q4Match(coll) ==
    SelectSeq(coll, LAMBDA d : d.Year > 2015 /\ d.Entity = "Canada")

Q4Sort(s) == SortOutcomes(s, Ascending([i \in DOMAIN s |-> s[i].Year]))

\* $shift by -1: the value of the document one position earlier in the sorted
\* partition, null for the first.
Q4Window(s) ==
    [i \in DOMAIN s |->
        [doc |-> s[i],
         prev_year_generation |->
             IF i = 1 THEN Null ELSE s[i - 1].electricity_from_nuclear_twh]]

\* $subtract: null when either operand is null.
Q4AddDiff(s) ==
    [i \in DOMAIN s |->
        [doc |-> s[i].doc,
         generation_difference |->
             IF IsNull(s[i].doc.electricity_from_nuclear_twh)
                \/ IsNull(s[i].prev_year_generation)
             THEN Null
             ELSE Some(Val(s[i].doc.electricity_from_nuclear_twh)
                       - Val(s[i].prev_year_generation))]]

Q4Positive(s) ==
    SelectSeq(s, LAMBDA r : ~IsNull(r.generation_difference)
                            /\ Val(r.generation_difference) > 0)

Max(S) == CHOOSE m \in S : \A x \in S : x <= m

\* Only the first document that reaches the maximum.
Q4ArgMaxFirst(s) ==
    IF s = <<>> THEN <<>>
    ELSE LET m == Max({Val(s[i].generation_difference) : i \in DOMAIN s})
             i == CHOOSE k \in DOMAIN s :
                      /\ Val(s[k].generation_difference) = m
                      /\ \A j \in 1..(k - 1) : Val(s[j].generation_difference) # m
         IN  <<s[i]>>

\* $group by Entity ($max, $push) and the $filter on the pushed documents: no
\* group, hence no row, when nothing reaches the $group.
Q4ArgMax(s) ==
    IF s = <<>> THEN <<>>
    ELSE LET m == Max({Val(s[i].generation_difference) : i \in DOMAIN s})
         IN  SelectSeq(s, LAMBDA r : Val(r.generation_difference) = m)

Q4Project(r) ==
    [Entity |-> r.doc.Entity, Year |-> r.doc.Year,
     total_nuclear_generation |-> r.doc.electricity_from_nuclear_twh,
     generation_difference |-> Val(r.generation_difference)]

Q4Pipeline(sorted) ==
    LET best == Q4ArgMax(Q4Positive(Q4AddDiff(Q4Window(sorted))))
    IN  [i \in DOMAIN best |-> Q4Project(best[i])]

Q4Results(coll) ==
    {Q4Pipeline(w) : w \in UNION {Q4Sort(s) : s \in Q4Sort(Q4Match(coll))}}

Query4 ==
    /\ Len(runs) < MaxRuns
    /\ \E rows \in Q4Results(worldgen) : runs' = Append(runs, Ok(4, rows))
    /\ UNCHANGED <<plants, worldgen, rates, uprod, usgen, uprice>>

Q4Twh == {Null, Some(1), Some(2), Some(3), Some(4)}
Q4Docs == {GenDoc("Canada", y, Null, t) : y \in 2015..2018, t \in Q4Twh}
          \cup {GenDoc("France", 2017, Null, Some(9))}

\* The data model's invariant: at most one record per (Entity, Year).
UniqueEntityYear(s) ==
    \A i \in DOMAIN s : \A j \in DOMAIN s :
        (s[i].Entity = s[j].Entity /\ s[i].Year = s[j].Year) => i = j

InitQ4 ==
    /\ worldgen \in {s \in SeqsUpTo(Q4Docs, MaxGenQ4) : UniqueEntityYear(s)}
    /\ plants = <<>> /\ rates = <<>> /\ uprod = <<>>
    /\ usgen = <<>> /\ uprice = <<>>
    /\ runs = <<>>

NextQ4 == Query4

SpecQ4 == InitQ4 /\ [][NextQ4]_vars

-----------------------------------------------------------------------------
(* QUERY 5: nuclear capacity by 5 x 5 degree band.  latitude and longitude *)
(* are in tenths of a degree; a string is a sequence of characters, the    *)
(* degree sign and the en dash of the labels being "deg" and "endash".     *)

Digits == <<"0", "1", "2", "3", "4", "5", "6", "7", "8", "9">>

RECURSIVE NatToString(_)
NatToString(n) ==
    IF n < 10 THEN <<Digits[n + 1]>>
    ELSE NatToString(n \div 10) \o <<Digits[(n % 10) + 1]>>

\* $toString of an integral number: a minus sign, then the decimal digits.
NumToString(n) == IF n < 0 THEN <<"-">> \o NatToString(-n) ELSE NatToString(n)

\* Truncation toward zero in place of $floor.
BandLowerTrunc(v) == IF v < 0 THEN -((-v) \div 50) * 5 ELSE (v \div 50) * 5

\* { $multiply: [ { $floor: { $divide: [v, 5] } }, 5 ] }, in whole degrees;
\* \div rounds toward minus infinity, as $floor does.
BandLower(v) == (v \div 50) * 5

BandUpper(v) == BandLower(v) + 5

BandLabel(v) ==
    NumToString(BandLower(v)) \o <<"deg", "endash">> \o NumToString(BandUpper(v)) \o <<"deg">>

Q5Match(coll) ==
    SelectSeq(coll, LAMBDA d : /\ d.primary_fuel = "Nuclear"
                               /\ ~IsNull(d.latitude)
                               /\ ~IsNull(d.longitude))

Q5AddFields(s) ==
    [i \in DOMAIN s |->
        [doc |-> s[i],
         lat_band |-> BandLabel(Val(s[i].latitude)),
         lon_band |-> BandLabel(Val(s[i].longitude))]]

\* Alphabetical order of the country names of the model.
NameRank(c) == CHOOSE k \in 1..3 : <<"Canada", "France", "Japan">>[k] = c

\* $sortArray ascending, then the $reduce that joins with ", ".
RECURSIVE JoinSorted(_)
JoinSorted(S) ==
    IF S = {} THEN <<>>
    ELSE LET first == CHOOSE c \in S : \A d \in S : NameRank(c) <= NameRank(d)
             rest == JoinSorted(S \ {first})
         IN  IF rest = <<>> THEN <<first>> ELSE <<first, ", ">> \o rest

Q5Group(s) ==
    {LET members == SelectSeq(s, LAMBDA r : r.lat_band = key[1] /\ r.lon_band = key[2])
     IN  [lat_band |-> key[1], lon_band |-> key[2],
          plant_count |-> Len(members),
          total_capacity_mw |->
              SeqSum([i \in DOMAIN members |-> NumOrZero(members[i].doc.capacity_mw)]),
          countries_in_band |->
              JoinSorted({members[i].doc.country_long : i \in DOMAIN members})]
     : key \in {<<s[i].lat_band, s[i].lon_band>> : i \in DOMAIN s}}

Q5Results(coll) ==
    UNION {SortOutcomes(gs, Descending([i \in DOMAIN gs |->
                                           gs[i].total_capacity_mw]))
           : gs \in GroupOutcomes(Q5Group(Q5AddFields(Q5Match(coll))))}

Query5 ==
    /\ Len(runs) < MaxRuns
    /\ \E rows \in Q5Results(plants) : runs' = Append(runs, Ok(5, rows))
    /\ UNCHANGED <<plants, worldgen, rates, uprod, usgen, uprice>>

Q5Lats == {Null, Some(-51), Some(-50), Some(-30), Some(0), Some(49), Some(50)}
Q5Lons == {Null, Some(20)}
Q5Docs == {PlantDoc("C", "Canada", "Nuclear", Some(10), lat, lon, Null, Null)
           : lat \in Q5Lats, lon \in Q5Lons}
          \cup {PlantDoc("C", "Canada", "Nuclear", Some(10), Some(-30), Some(-30), Null, Null),
                PlantDoc("F", "France", "Nuclear", Some(25), Some(-30), Some(20), Null, Null),
                PlantDoc("J", "Japan", "Coal", Some(10), Some(0), Some(20), Null, Null)}

InitQ5 ==
    /\ plants \in SeqsUpTo(Q5Docs, MaxPlantsQ5)
    /\ worldgen = <<>> /\ rates = <<>> /\ uprod = <<>>
    /\ usgen = <<>> /\ uprice = <<>>
    /\ runs = <<>>

NextQ5 == Query5

SpecQ5 == InitQ5 /\ [][NextQ5]_vars

-----------------------------------------------------------------------------
(* $divide.  The quotient is kept exact, as the pair (num, den); a null    *)
(* operand gives null; a zero divisor makes the server abort the whole     *)
(* aggregation ("can't $divide by zero").                                  *)

DivideFails(a, b) == ~IsNull(a) /\ ~IsNull(b) /\ Val(b) = 0

Divide(a, b) ==
    IF IsNull(a) \/ IsNull(b) THEN Null
    ELSE Some([num |-> Val(a), den |-> Val(b)])

\* Order of two nullable quotients with positive divisors: null sorts lowest.
QuotientGt(x, y) ==
    IF IsNull(x) THEN FALSE
    ELSE IF IsNull(y) THEN TRUE
    ELSE Val(x).num * Val(y).den > Val(y).num * Val(x).den

-----------------------------------------------------------------------------
(* QUERY 6: how many times more dangerous than nuclear each source is.     *)
(* Deaths per TWh are in thousandths.                                      *)

RateDoc(e, d) == [Entity |-> e, deaths |-> d]

Q6Nuclear(coll) ==
    LET m == SelectSeq(coll, LAMBDA d : d.Entity = "Nuclear")
    IN  [i \in DOMAIN m |-> [nuclear_deaths |-> m[i].deaths]]

Q6Others(coll) ==
    LET m == SelectSeq(coll, LAMBDA d : d.Entity # "Nuclear")
    IN  [i \in DOMAIN m |-> [other_source |-> m[i].Entity, other_deaths |-> m[i].deaths]]

\* { $arrayElemAt: ["$nuclear.nuclear_deaths", 0] }: missing (null) when the
\* nuclear branch is empty.
Q6NuclearDeaths(coll) ==
    IF Q6Nuclear(coll) = <<>> THEN Null ELSE Q6Nuclear(coll)[1].nuclear_deaths

Q6Fails(coll) ==
    \E i \in DOMAIN Q6Others(coll) :
        DivideFails(Q6Others(coll)[i].other_deaths, Q6NuclearDeaths(coll))

Q6Combinations(coll) ==
    [i \in DOMAIN Q6Others(coll) |->
        [nuclear |-> "Nuclear",
         nuclear_deaths |-> Q6NuclearDeaths(coll),
         other_source |-> Q6Others(coll)[i].other_source,
         other_deaths |-> Q6Others(coll)[i].other_deaths,
         times_more_dangerous |->
             Divide(Q6Others(coll)[i].other_deaths, Q6NuclearDeaths(coll))]]

Q6Results(coll) ==
    LET rows == Q6Combinations(coll)
    IN  SortOutcomes(rows,
                     [i \in DOMAIN rows |-> [j \in DOMAIN rows |->
                         QuotientGt(rows[i].times_more_dangerous,
                                    rows[j].times_more_dangerous)]])

Query6 ==
    /\ Len(runs) < MaxRuns
    /\ IF Q6Fails(rates)
       THEN runs' = Append(runs, Failed(6))
       ELSE \E rows \in Q6Results(rates) : runs' = Append(runs, Ok(6, rows))
    /\ UNCHANGED <<plants, worldgen, rates, uprod, usgen, uprice>>

-----------------------------------------------------------------------------
(* QUERY 8: actual against estimated generation of each nuclear plant.     *)
(* Generation is in GWh; absolute_error and percent_error in hundredths.   *)

Q8Match(coll) ==
    SelectSeq(coll, LAMBDA d : /\ d.primary_fuel = "Nuclear"
                               /\ ~IsNull(d.generation_gwh_2017)
                               /\ ~IsNull(d.estimated_generation_gwh_2017))

Q8AbsDiff(d) ==
    Abs(Val(d.generation_gwh_2017) - Val(d.estimated_generation_gwh_2017))

Q8Fails(coll) ==
    \E i \in DOMAIN Q8Match(coll) :
        DivideFails(Some(Q8AbsDiff(Q8Match(coll)[i])),
                    Q8Match(coll)[i].generation_gwh_2017)

\* $round to 2 decimals of |real - estimated| / real * 100.
Q8PercentError(d) ==
    LET q == Val(Divide(Some(Q8AbsDiff(d)), d.generation_gwh_2017))
    IN  IF q.den > 0 THEN RoundDiv(q.num * 10000, q.den)
        ELSE -RoundDiv(q.num * 10000, -q.den)

Q8Project(d) ==
    [country |-> d.country, name |-> d.name,
     real_generation |-> Val(d.generation_gwh_2017),
     estimated_generation |-> Val(d.estimated_generation_gwh_2017),
     absolute_error |-> Q8AbsDiff(d) * 100,
     percent_error |-> Q8PercentError(d)]

Q8Results(coll) ==
    LET rows == [i \in DOMAIN Q8Match(coll) |-> Q8Project(Q8Match(coll)[i])]
    IN  SortOutcomes(rows, Descending([i \in DOMAIN rows |-> rows[i].percent_error]))

Query8 ==
    /\ Len(runs) < MaxRuns
    /\ IF Q8Fails(plants)
       THEN runs' = Append(runs, Failed(8))
       ELSE \E rows \in Q8Results(plants) : runs' = Append(runs, Ok(8, rows))
    /\ UNCHANGED <<plants, worldgen, rates, uprod, usgen, uprice>>

Q6Deaths == {Null, Some(0), Some(30), Some(24600)}
Q6Docs == {RateDoc(e, d) : e \in {"Nuclear", "Coal"}, d \in Q6Deaths}

Q8Docs == {PlantDoc("C", "Canada", "Nuclear", Null, Null, Null, g, e)
           : g \in {Null, Some(0), Some(4)}, e \in {Null, Some(3), Some(5)}}
          \cup {PlantDoc("C", "Canada", "Coal", Null, Null, Null, Some(0), Some(5))}

InitQ6Q8 ==
    /\ rates \in SeqsUpTo(Q6Docs, MaxRates)
    /\ plants \in SeqsUpTo(Q8Docs, MaxPlantsQ8)
    /\ worldgen = <<>> /\ uprod = <<>>
    /\ usgen = <<>> /\ uprice = <<>>
    /\ runs = <<>>

NextQ6Q8 == Query6 \/ Query8

SpecQ6Q8 == InitQ6Q8 /\ [][NextQ6Q8]_vars

-----------------------------------------------------------------------------
(* QUERY 7: nuclear against solar generation by country.                   *)
(* Generation is in GWh, deaths in 1/100000 (gwh / 1000 * 0.07 = 7 gwh     *)
(* units).                                                                 *)

Q7Branch(coll, fuel, perGwh) ==
    LET m == SelectSeq(coll, LAMBDA d : d.primary_fuel = fuel)
        groups ==
            {[_id |-> id,
              gwh |-> SeqSum([i \in DOMAIN m |->
                        IF m[i].country = id.country
                           /\ m[i].country_long = id.country_long
                        THEN NumOrZero(m[i].estimated_generation_gwh_2017)
                        ELSE 0])]
             : id \in {[country |-> m[i].country, country_long |-> m[i].country_long]
                       : i \in DOMAIN m}}
    IN  {[_id |-> g._id, gwh |-> g.gwh, deaths |-> g.gwh * perGwh]
         : g \in {h \in groups : h.gwh > 0}}

Q7Nuclear(coll) == Q7Branch(coll, "Nuclear", 7)
Q7Solar(coll) == Q7Branch(coll, "Solar", 2)

\* $mergeObjects of the nuclear group with the first solar group of the same
\* country code: $arrayElemAt of an empty $filter result is missing, and
\* $mergeObjects ignores a missing operand, so the nuclear group stays as it is.
Q7Merge(n, solar) ==
    LET matches == SelectSeq(solar, LAMBDA s : s._id.country = n._id.country)
    IN  IF matches = <<>>
        THEN <<[_id |-> n._id, nuclear_gwh |-> n.gwh, nuclear_deaths |-> n.deaths,
                solar_gwh |-> Null, solar_deaths |-> Null]>>
        ELSE <<[_id |-> matches[1]._id,
                nuclear_gwh |-> n.gwh, nuclear_deaths |-> n.deaths,
                solar_gwh |-> Some(matches[1].gwh),
                solar_deaths |-> Some(matches[1].deaths)]>>

RECURSIVE Flatten(_)
Flatten(ss) == IF ss = <<>> THEN <<>> ELSE ss[1] \o Flatten(Tail(ss))

Q7Project(r) ==
    [_id |-> r._id, country |-> r._id.country, country_long |-> r._id.country_long,
     nuclear_gwh |-> r.nuclear_gwh, solar_gwh |-> r.solar_gwh,
     nuclear_deaths |-> r.nuclear_deaths, solar_deaths |-> r.solar_deaths]

Q7Results(coll) ==
    UNION {LET combined == Flatten([i \in DOMAIN ns |-> Q7Merge(ns[i], ss)])
               rows == [i \in DOMAIN combined |-> Q7Project(combined[i])]
           IN  SortOutcomes(rows, Descending([i \in DOMAIN rows |-> rows[i].nuclear_gwh]))
           : ns \in GroupOutcomes(Q7Nuclear(coll)), ss \in GroupOutcomes(Q7Solar(coll))}

Query7 ==
    /\ Len(runs) < MaxRuns
    /\ \E rows \in Q7Results(plants) : runs' = Append(runs, Ok(7, rows))
    /\ UNCHANGED <<plants, worldgen, rates, uprod, usgen, uprice>>

Q7Docs == {PlantDoc(c[1], c[2], f, Null, Null, Null, Null, e)
           : c \in {<<"CAN", "Canada">>, <<"FRA", "France">>},
             f \in {"Nuclear", "Solar", "Coal"},
             e \in {Null, Some(0), Some(5)}}

InitQ7 ==
    /\ plants \in SeqsUpTo(Q7Docs, MaxPlantsQ7)
    /\ worldgen = <<>> /\ rates = <<>> /\ uprod = <<>>
    /\ usgen = <<>> /\ uprice = <<>>
    /\ runs = <<>>

NextQ7 == Query7

SpecQ7 == InitQ7 /\ [][NextQ7]_vars

-----------------------------------------------------------------------------
(* $lookup on one field followed by $unwind: for each left document, in    *)
(* order, one row per right document whose foreignField equals the left    *)
(* document's localField (localKeys[i] and foreignKeys[j] are the fields   *)
(* of left[i] and right[j]).                                               *)

LookupUnwind(left, right, localKeys, foreignKeys) ==
    Flatten([i \in DOMAIN left |->
                LET found == {j \in DOMAIN right : foreignKeys[j] = localKeys[i]}
                    nth(k) == CHOOSE j \in found :
                                  Cardinality({h \in found : h < j}) = k - 1
                IN  [k \in 1..Cardinality(found) |->
                        [l |-> left[i], r |-> right[nth(k)]]]])

-----------------------------------------------------------------------------
(* QUERY 9: uranium production and employment joined with generation.      *)
(* The two text fields are sequences of characters (or null).              *)

ProdDoc(y, mine, emp) == [Year |-> y, mine |-> mine, employment |-> emp]
UsGenDoc(y, g) == [YEAR |-> y, generation |-> g]
PriceDoc(y, t) == [delivery_year |-> y, total |-> t]

DigitChars == Range(Digits)

DigitValue(c) == (CHOOSE k \in 1..10 : Digits[k] = c) - 1

\* $regexMatch with /^[0-9.]+$/ or /^[0-9]+$/: false on null, else one or more
\* characters, all of the class.
RegexMatch(t, class) ==
    /\ ~IsNull(t)
    /\ Len(Val(t)) >= 1
    /\ \A i \in DOMAIN Val(t) : Val(t)[i] \in class

\* $toDouble of a string of digits and dots: a decimal literal has at most one
\* dot and at least one digit; anything else is a conversion failure.
ToDoubleOk(str) ==
    /\ Cardinality({i \in DOMAIN str : str[i] = "."}) <= 1
    /\ \E i \in DOMAIN str : str[i] \in DigitChars

RECURSIVE StripLeadingZeros(_)
StripLeadingZeros(ds) ==
    IF ds # <<>> /\ ds[1] = "0" THEN StripLeadingZeros(Tail(ds)) ELSE ds

RECURSIVE StripTrailingZeros(_)
StripTrailingZeros(ds) ==
    IF ds # <<>> /\ ds[Len(ds)] = "0"
    THEN StripTrailingZeros(SubSeq(ds, 1, Len(ds) - 1)) ELSE ds

\* The number a decimal literal denotes: its integer and fraction digits.
ToDouble(str) ==
    LET dots == {i \in DOMAIN str : str[i] = "."}
        cut == IF dots = {} THEN Len(str) + 1 ELSE CHOOSE i \in dots : TRUE
    IN  [int |-> StripLeadingZeros(SubSeq(str, 1, cut - 1)),
         frac |-> StripTrailingZeros(SubSeq(str, cut + 1, Len(str)))]

MaxInt32 == 2147483647

\* The value of a digit string, or -1 once it exceeds the 32-bit range.
RECURSIVE ParseInt(_, _)
ParseInt(str, acc) ==
    IF str = <<>> THEN acc
    ELSE IF acc > (MaxInt32 - DigitValue(str[1])) \div 10 THEN -1
    ELSE ParseInt(Tail(str), acc * 10 + DigitValue(str[1]))

\* $toInt of a digit string fails when the value does not fit 32 bits.
ToIntOk(str) == ParseInt(str, 0) >= 0

ToInt(str) == ParseInt(str, 0)

Q9Join(left, right) ==
    LookupUnwind(left, right, [i \in DOMAIN left |-> left[i].Year],
                 [j \in DOMAIN right |-> right[j].YEAR])

Q9RowFails(j) ==
    \/ RegexMatch(j.l.mine, DigitChars \cup {"."}) /\ ~ToDoubleOk(Val(j.l.mine))
    \/ RegexMatch(j.l.employment, DigitChars) /\ ~ToIntOk(Val(j.l.employment))

Q9Fails(left, right) ==
    \E i \in DOMAIN Q9Join(left, right) : Q9RowFails(Q9Join(left, right)[i])

Q9Project(j) ==
    [Year |-> j.l.Year,
     production_million_lbs |->
         IF RegexMatch(j.l.mine, DigitChars \cup {"."})
         THEN Some(ToDouble(Val(j.l.mine))) ELSE Null,
     employees |->
         IF RegexMatch(j.l.employment, DigitChars)
         THEN Some(ToInt(Val(j.l.employment))) ELSE Null,
     generation_mwh |-> j.r.generation]

Q9Results(left, right) ==
    LET rows == [i \in DOMAIN Q9Join(left, right) |->
                    Q9Project(Q9Join(left, right)[i])]
    IN  SortOutcomes(rows, Descending([i \in DOMAIN rows |-> rows[i].Year]))

Query9 ==
    /\ Len(runs) < MaxRuns
    /\ IF Q9Fails(uprod, usgen)
       THEN runs' = Append(runs, Failed(9))
       ELSE \E rows \in Q9Results(uprod, usgen) : runs' = Append(runs, Ok(9, rows))
    /\ UNCHANGED <<plants, worldgen, rates, uprod, usgen, uprice>>

-----------------------------------------------------------------------------
(* QUERY 10: estimated uranium cost per year.  Generation is in MWh, the   *)
(* price in hundredths of a dollar per pound, uranium_needed_pounds and    *)
(* total_uranium_cost_usd in hundredths.                                   *)

Q10Join(left, right) ==
    LookupUnwind(left, right, [i \in DOMAIN left |-> left[i].YEAR],
                 [j \in DOMAIN right |-> right[j].delivery_year])

Q10Match(s) ==
    SelectSeq(s, LAMBDA j : ~IsNull(j.l.generation) /\ ~IsNull(j.r.total))

Q10Project(j) ==
    [year |-> j.l.YEAR,
     nuclear_generation |-> Val(j.l.generation),
     uranium_needed_pounds |-> RoundDiv(Val(j.l.generation) * 7, 10),
     uranium_price_usd_per_lb |-> Val(j.r.total),
     total_uranium_cost_usd |->
         RoundDiv(Val(j.l.generation) * 7 * Val(j.r.total), 1000)]

Q10Results(left, right) ==
    LET kept == Q10Match(Q10Join(left, right))
        rows == [i \in DOMAIN kept |-> Q10Project(kept[i])]
    IN  SortOutcomes(rows, Descending([i \in DOMAIN rows |-> rows[i].year]))

Query10 ==
    /\ Len(runs) < MaxRuns
    /\ \E rows \in Q10Results(usgen, uprice) : runs' = Append(runs, Ok(10, rows))
    /\ UNCHANGED <<plants, worldgen, rates, uprod, usgen, uprice>>

Q9Texts ==
    {<<Some(<<"1", ".", "5">>), Some(<<"1", "2">>)>>,
     <<Some(<<".">>), Some(<<"1", "2">>)>>,
     <<Some(<<"1", ".", "2", ".", "3">>), Some(<<"W">>)>>,
     <<Some(<<"W">>), Some(<<"9", "9", "9", "9", "9", "9", "9", "9", "9", "9", "9">>)>>,
     <<Some(<<"0", "7">>), Some(<<"2", "1", "4", "7", "4", "8", "3", "6", "4", "7">>)>>,
     <<Null, Null>>}

Q9Docs == {ProdDoc(y, t[1], t[2]) : y \in {2000, 2001}, t \in Q9Texts}
UsGenDocs == {UsGenDoc(2000, Some(700)), UsGenDoc(2001, Some(705)),
              UsGenDoc(2001, Null)}
PriceDocs == {PriceDoc(2000, Some(3550)), PriceDoc(2001, Some(4000)),
              PriceDoc(2001, Null)}

InitQ9Q10 ==
    /\ uprod \in SeqsUpTo(Q9Docs, MaxProd)
    /\ usgen \in SeqsUpTo(UsGenDocs, MaxUsGen)
    /\ uprice \in SeqsUpTo(PriceDocs, MaxPrice)
    /\ plants = <<>> /\ worldgen = <<>> /\ rates = <<>>
    /\ runs = <<>>

NextQ9Q10 == Query9 \/ Query10

SpecQ9Q10 == InitQ9Q10 /\ [][NextQ9Q10]_vars

-----------------------------------------------------------------------------
(* Properties.                                                             *)

RunsOf(q) == {i \in DOMAIN runs : runs[i].query = q}

Rows(i) == Range(runs[i].rows)

\* ---- Query 7 -------------------------------------------------------------

\* The total estimated generation of a (country, country_long, fuel) group.
BranchGwh(c, cl, fuel) ==
    SeqSum([i \in DOMAIN plants |->
              IF /\ plants[i].country = c
                 /\ plants[i].country_long = cl
                 /\ plants[i].primary_fuel = fuel
              THEN NumOrZero(plants[i].estimated_generation_gwh_2017) ELSE 0])

InBranch(c, fuel) ==
    \E i \in DOMAIN plants : BranchGwh(c, plants[i].country_long, fuel) > 0

\* C1: query 7 has exactly one row for a country with both a nuclear group
\* (nuclear_gwh > 0) and a solar group (solar_gwh > 0), and no row for a country
\* that is in only one of the two branches.
C1_OnlyCountriesInBothBranches ==
    \A i \in RunsOf(7) :
        /\ runs[i].ok
        /\ \A c \in {plants[k].country : k \in DOMAIN plants} :
               LET n == Cardinality({k \in DOMAIN runs[i].rows :
                                        runs[i].rows[k].country = c})
               IN  IF InBranch(c, "Nuclear") /\ InBranch(c, "Solar")
                   THEN n = 1 ELSE n = 0

\* ---- Queries 6 and 8 -----------------------------------------------------

\* C2: a zero denominator never makes a query fail: query 8 completes and has no
\* row of a plant with generation_gwh_2017 = 0; query 6 completes and, when the
\* Nuclear death rate is 0, marks times_more_dangerous undefined (null).
C2_ZeroDenominatorNeverCrashes ==
    /\ \A i \in RunsOf(8) :
           /\ runs[i].ok
           /\ \A r \in Rows(i) : r.real_generation # 0
    /\ \A i \in RunsOf(6) :
           /\ runs[i].ok
           /\ \A r \in Rows(i) :
                  r.nuclear_deaths = Some(0) => IsNull(r.times_more_dangerous)

\* ---- Query 9 -------------------------------------------------------------

\* A decimal number written with digits and at most one dot.
ValidNumberText(t) ==
    /\ ~IsNull(t)
    /\ \A k \in DOMAIN Val(t) : Val(t)[k] \in DigitChars \cup {"."}
    /\ Cardinality({k \in DOMAIN Val(t) : Val(t)[k] = "."}) <= 1
    /\ \E k \in DOMAIN Val(t) : Val(t)[k] \in DigitChars

\* C3: query 9 never fails on a text value: every run completes, and a row has a
\* non-null production_million_lbs only for a production text that is a valid
\* number.
C3_InvalidTextYieldsNull ==
    \A i \in RunsOf(9) :
        /\ runs[i].ok
        /\ \A r \in Rows(i) :
               ~IsNull(r.production_million_lbs) =>
                   \E k \in DOMAIN uprod :
                       uprod[k].Year = r.Year /\ ValidNumberText(uprod[k].mine)

\* C9: the year joins are inner joins with unwind: query 9 has as many rows as
\* there are (production record, generation record) pairs with Year = YEAR, and
\* query 10 as many as there are (generation, price) pairs of equal year whose
\* generation and price are not null.
C9_JoinRowCount ==
    /\ \A i \in RunsOf(9) :
           Len(runs[i].rows) =
               Cardinality({p \in (DOMAIN uprod) \X (DOMAIN usgen) :
                               uprod[p[1]].Year = usgen[p[2]].YEAR})
    /\ \A i \in RunsOf(10) :
           Len(runs[i].rows) =
               Cardinality({p \in (DOMAIN usgen) \X (DOMAIN uprice) :
                               /\ usgen[p[1]].YEAR = uprice[p[2]].delivery_year
                               /\ ~IsNull(usgen[p[1]].generation)
                               /\ ~IsNull(uprice[p[2]].total)})

\* ---- Query 4 -------------------------------------------------------------

CanadaAfter2015 == {d \in Range(worldgen) : d.Entity = "Canada" /\ d.Year > 2015}

\* The record before d in Canada's partition: the one of the latest earlier year.
IsPredecessor(p, d) ==
    /\ p \in CanadaAfter2015
    /\ p.Year < d.Year
    /\ \A o \in CanadaAfter2015 : o.Year < d.Year => o.Year <= p.Year

\* The positive differences of the partition, each with its record.
PositiveSteps ==
    {s \in [doc : CanadaAfter2015, diff : 1..10] :
        \E p \in CanadaAfter2015 :
            /\ IsPredecessor(p, s.doc)
            /\ ~IsNull(p.electricity_from_nuclear_twh)
            /\ ~IsNull(s.doc.electricity_from_nuclear_twh)
            /\ s.diff = Val(s.doc.electricity_from_nuclear_twh)
                        - Val(p.electricity_from_nuclear_twh)}

MaximalSteps == {s \in PositiveSteps : \A o \in PositiveSteps : o.diff <= s.diff}

\* C4: query 4 returns exactly the Canada rows (Year > 2015) whose
\* generation_difference is the maximum positive difference of the partition:
\* every tied year once, no row of a smaller difference, nothing when no
\* difference is positive.
C4_ExactlyTheMaximalYears ==
    \A i \in RunsOf(4) :
        /\ runs[i].ok
        /\ Rows(i) = {[Entity |-> s.doc.Entity, Year |-> s.doc.Year,
                       total_nuclear_generation |-> s.doc.electricity_from_nuclear_twh,
                       generation_difference |-> s.diff] : s \in MaximalSteps}
        /\ Len(runs[i].rows) = Cardinality(MaximalSteps)

\* A run that returned two tied years.
C4_Witness == \E i \in RunsOf(4) : Len(runs[i].rows) >= 2

\* A run that left out a year of a smaller positive difference.
C4_SmallerLeftOut ==
    \E i \in RunsOf(4) :
        /\ Len(runs[i].rows) = 1
        /\ \E s \in PositiveSteps : s \notin MaximalSteps

\* C5: every row of query 4 has generation_difference > 0, equal to the row's
\* generation minus the generation of Canada's record of the calendar year
\* Year - 1.
C5_DifferenceToCalendarYearBefore ==
    \A i \in RunsOf(4) : \A r \in Rows(i) :
        /\ r.generation_difference > 0
        /\ \E d \in Range(worldgen) :
               /\ d.Entity = "Canada"
               /\ d.Year = r.Year - 1
               /\ ~IsNull(d.electricity_from_nuclear_twh)
               /\ r.generation_difference =
                      Val(r.total_nuclear_generation)
                      - Val(d.electricity_from_nuclear_twh)

\* ---- Query 3 -------------------------------------------------------------

SharesOf(S) ==
    LET s == SelectSeq(worldgen, LAMBDA d : d.Year = 2023 /\ d.Entity \in S
                                            /\ ~IsNull(d.share_of_electricity_pct))
    IN  [sum |-> SeqSum([k \in DOMAIN s |-> Val(s[k].share_of_electricity_pct)]),
         count |-> Len(s)]

Global == SharesOf({"Canada", "France"})

\* The 2023 average of entity e is strictly above the global 2023 average.
AboveGlobal(e) ==
    /\ SharesOf({e}).count > 0
    /\ SharesOf({e}).sum * Global.count > Global.sum * SharesOf({e}).count

\* C6 as stated: the emitted (rounded) avg_nuclear_share of every row is strictly
\* greater than globalAvg, and no country at or below globalAvg appears.
C6_EmittedAboveGlobal ==
    \A i \in RunsOf(3) : \A r \in Rows(i) :
        /\ r.avg_nuclear_share * 10 * Global.count > Global.sum
        /\ AboveGlobal(r._id)

\* C6 amended: every row is a country whose 2023 average before rounding is
\* strictly greater than globalAvg, and the emitted avg_nuclear_share is that
\* average rounded to 2 decimals (within 0.005 of it); no country at or below
\* globalAvg appears.
C6_UnroundedAboveGlobal ==
    \A i \in RunsOf(3) : \A r \in Rows(i) :
        /\ AboveGlobal(r._id)
        /\ Abs(r.avg_nuclear_share * 10 * SharesOf({r._id}).count
               - SharesOf({r._id}).sum) <= 5 * SharesOf({r._id}).count

\* A row whose emitted value is not above globalAvg.
C6_Witness ==
    \E i \in RunsOf(3) : \E r \in Rows(i) :
        r.avg_nuclear_share * 10 * Global.count <= Global.sum

\* ---- Query 5 -------------------------------------------------------------

Eligible ==
    {i \in DOMAIN plants : /\ plants[i].primary_fuel = "Nuclear"
                           /\ ~IsNull(plants[i].latitude)
                           /\ ~IsNull(plants[i].longitude)}

\* The multiple of 5 (degrees) with lower <= v < lower + 5, v in tenths.
IntervalOf(v) ==
    CHOOSE l \in {5 * k : k \in -4..4} : l * 10 <= v /\ v < (l + 5) * 10

Cell(i) == <<IntervalOf(Val(plants[i].latitude)), IntervalOf(Val(plants[i].longitude))>>

Label(l) == NumToString(l) \o <<"deg", "endash">> \o NumToString(l + 5) \o <<"deg">>

\* C7: a band's lower bound is the largest multiple of 5 that is <= v and its
\* upper bound is lower + 5, for negative coordinates too; two plants are in the
\* same (lat_band, lon_band) group exactly when their coordinates are in the
\* same 5-degree intervals.
C7_FloorBands ==
    \A i \in RunsOf(5) :
        /\ Len(runs[i].rows) = Cardinality({Cell(p) : p \in Eligible})
        /\ \A p \in Eligible :
               \E k \in DOMAIN runs[i].rows :
                   /\ runs[i].rows[k].lat_band = Label(Cell(p)[1])
                   /\ runs[i].rows[k].lon_band = Label(Cell(p)[2])
                   /\ runs[i].rows[k].plant_count =
                          Cardinality({q \in Eligible : Cell(q) = Cell(p)})

\* A run over a plant at latitude -3 and a plant at latitude 0, in two bands.
C7_Witness ==
    \E i \in RunsOf(5) :
        /\ \E p \in Eligible : plants[p].latitude = Some(-30)
        /\ \E p \in Eligible : plants[p].latitude = Some(0)
        /\ \A p, q \in Eligible : plants[p].longitude = plants[q].longitude
        /\ Len(runs[i].rows) = 2

\* ---- Query 1 -------------------------------------------------------------

FuelCapacity(f) ==
    SeqSum([k \in DOMAIN plants |->
              IF plants[k].primary_fuel = f
              THEN NumOrZero(plants[k].capacity_mw) ELSE 0])

DatasetCapacity ==
    SeqSum([k \in DOMAIN plants |-> NumOrZero(plants[k].capacity_mw)])

\* The sum of the emitted totals, in hundredths of a MW.
EmittedCapacity(i) ==
    10 * SeqSum([k \in DOMAIN runs[i].rows |-> runs[i].rows[k].total_capacity_mw])

\* C8 as stated: the sum of total_capacity_mw over the fuel groups equals the
\* dataset-wide sum of the non-null capacity_mw values.
C8_SumOfGroupsEqualsTotal ==
    \A i \in RunsOf(1) : EmittedCapacity(i) = DatasetCapacity

\* C8 amended: each group's total_capacity_mw is within 0.05 of the sum of the
\* capacity_mw of its fuel, so the sum over the groups is within 0.05 per group
\* of the dataset-wide sum, and equal to it when no group sum needs rounding.
C8_SumOfGroupsWithinRounding ==
    \A i \in RunsOf(1) :
        /\ \A r \in Rows(i) :
               Abs(10 * r.total_capacity_mw - FuelCapacity(r._id)) <= 5
        /\ Abs(EmittedCapacity(i) - DatasetCapacity) <= 5 * Len(runs[i].rows)
        /\ (\A r \in Rows(i) : FuelCapacity(r._id) % 10 = 0)
               => EmittedCapacity(i) = DatasetCapacity

\* A run with two fuel groups whose rounded totals do not add up to the
\* dataset-wide sum.
C8_Witness ==
    \E i \in RunsOf(1) :
        /\ Len(runs[i].rows) = 2
        /\ EmittedCapacity(i) # DatasetCapacity

\* ---- Every query ---------------------------------------------------------

\* C10: two runs of the same query over the unchanged collections return the
\* same rows in the same order.
C10_SameOrderedOutput ==
    \A i \in DOMAIN runs : \A j \in DOMAIN runs :
        runs[i].query = runs[j].query => runs[i].rows = runs[j].rows

====
